---- MODULE Spec2Model ----
(***************************************************************************)
(* Model of server-monitor.js (class ServerMonitor): the probes ping,      *)
(* checkSSH and checkApi, the per-target evaluation checkServer with its   *)
(* SSH cache, the fan-out checkAllServers and the refresh loop start.      *)
(*                                                                         *)
(* Time is the value of Date.now() in milliseconds.  One step of the model *)
(* is one run-to-completion turn of the event loop: an I/O or timer        *)
(* callback together with every promise continuation it makes runnable.    *)
(***************************************************************************)
EXTENDS Integers, Sequences, FiniteSets, TLC

VARIABLES
  servers,          \* this.config.servers
  refreshInterval,  \* this.config.refreshInterval
  now,              \* Date.now()
  sshCache,         \* this.sshCache
  results,          \* this.results
  displayed,        \* what displayTable printed last
  displayedFrom,    \* the call of checkAllServers whose results are displayed
  isLinux,          \* require('node:os').type() === 'Linux'
  cycles,           \* one record per call of checkAllServers
  tasks,            \* one record per call of checkServer, by cycle and position
  probes,           \* the probes each call of checkServer has invoked so far
  nextRefresh       \* when the setInterval timer is due (NoTimer before it is set)

vars == <<servers, refreshInterval, now, sshCache, results, displayed, displayedFrom,
          isLinux, cycles, tasks, probes, nextRefresh>>

----------------------------------------------------------------------------
\* Bounds of the model
MaxTicks == 2        \* the clock stops after MaxTicks steps of TickMs

----------------------------------------------------------------------------
\* JavaScript values

NULL == "null"                       \* null and undefined
TruthyStr(s) == s \notin {NULL, ""}   \* truthiness of a string-or-undefined value

NoResult == [undefined |-> TRUE]     \* the value of `let result;` never assigned
NoSsh == [absent |-> TRUE]           \* sshResult = null
NoApi == [pending |-> TRUE]          \* promise of checkApi not settled
IsRecord(r) == "status" \in DOMAIN r

SshKillMs == 15000
DefaultCheckInterval == 3600000
TickMs == SshKillMs
MaxTime == MaxTicks * TickMs
MaxCycles == MaxTicks + 1            \* one call of checkAllServers per tick at most
NoTimer == 0 - 1

----------------------------------------------------------------------------
\* JSON documents.  A value is a record tagged with its JavaScript type; data
\* (the response text) is one of the texts below and JSONparse is JSON.parse.

JUndefined == [t |-> "undefined"]
JNull == [t |-> "null"]
JStr(s) == [t |-> "string", v |-> s]
JNum(n) == [t |-> "number", v |-> n]
JObj(f) == [t |-> "object", f |-> f]
\* a function or object the runtime supplies, such as Object.prototype.toString
JBuiltin(name) == [t |-> "builtin", v |-> name]

Texts == {"{\"status\":\"ok\"}", "{\"status\":\"degraded\"}", "{}", "<html>"}

JSONparse(data) ==
  CASE data = "{\"status\":\"ok\"}" -> [threw |-> FALSE, value |-> JObj([status |-> JStr("ok")])]
    [] data = "{\"status\":\"degraded\"}" ->
         [threw |-> FALSE, value |-> JObj([status |-> JStr("degraded")])]
    [] data = "{}" -> [threw |-> FALSE, value |-> JObj(<<>>)]
    [] OTHER -> [threw |-> TRUE, value |-> JUndefined]

\* properties every value other than null and undefined inherits
ObjectPrototype == {"constructor", "toString", "valueOf", "hasOwnProperty"}

\* current?.[prop]: undefined for null and undefined, else an own property,
\* the length of a string, or a property inherited from the prototype
Member(current, prop) ==
  IF current.t \in {"undefined", "null"} THEN JUndefined
  ELSE IF current.t = "object" /\ prop \in DOMAIN current.f THEN current.f[prop]
  ELSE IF current.t = "string" /\ prop = "length" THEN JNum(Len(current.v))
  ELSE IF prop \in ObjectPrototype THEN JBuiltin(prop)
  ELSE JUndefined

\* getValueByPath(obj, path); path is given as path.split('.')
RECURSIVE getValueByPath(_, _)
getValueByPath(obj, path) ==
  IF path = <<>> THEN obj
  ELSE getValueByPath(Member(obj, Head(path)), Tail(path))

\* actual === expected: equal scalars; an object parsed from the response is
\* never the object the configuration holds
StrictEquals(actual, expected) == actual = expected /\ actual.t \notin {"object", "builtin"}

NoExpect == [unset |-> TRUE]         \* expectedResponse not configured
NoCheck == [none |-> TRUE]           \* responseCheckDetails: null
Expect(path, value) == [path |-> path, value |-> value]

----------------------------------------------------------------------------
\* checkApi: the outcomes it resolves with

ApiFailure(message) ==
  [success |-> FALSE, statusCode |-> 0, statusOk |-> FALSE, responseOk |-> NULL,
   responseCheckDetails |-> NoCheck, error |-> message]

ApiOnEndUngated(statusCode, data, expectedStatus, expectedResponse) ==
  LET statusOk == statusCode = expectedStatus
      checked == expectedResponse # NoExpect
      parsed == JSONparse(data)
      actual == getValueByPath(parsed.value, expectedResponse.path)
      responseOk == IF ~checked THEN TRUE
                    ELSE IF parsed.threw THEN FALSE
                    ELSE StrictEquals(actual, expectedResponse.value)
  IN [success |-> statusOk /\ responseOk,
      statusCode |-> statusCode,
      statusOk |-> statusOk,
      responseOk |-> IF responseOk THEN "true" ELSE "false",
      responseCheckDetails |->
        IF ~checked THEN NoCheck
        ELSE [path |-> expectedResponse.path, expected |-> expectedResponse.value,
              actual |-> IF parsed.threw THEN JNull ELSE actual,
              match |-> responseOk, parseError |-> parsed.threw],
      error |-> NULL]

\* the res.on('end') handler
ApiOnEnd(statusCode, data, expectedStatus, expectedResponse) ==
  LET statusOk == statusCode = expectedStatus
      checked == expectedResponse # NoExpect /\ statusOk
      parsed == JSONparse(data)
      actual == getValueByPath(parsed.value, expectedResponse.path)
      responseOk == IF ~checked THEN TRUE
                    ELSE IF parsed.threw THEN FALSE
                    ELSE StrictEquals(actual, expectedResponse.value)
  IN [success |-> statusOk /\ responseOk,
      statusCode |-> statusCode,
      statusOk |-> statusOk,
      responseOk |-> IF responseOk THEN "true" ELSE "false",
      responseCheckDetails |->
        IF ~checked THEN NoCheck
        ELSE [path |-> expectedResponse.path, expected |-> expectedResponse.value,
              actual |-> IF parsed.threw THEN JNull ELSE actual,
              match |-> responseOk, parseError |-> parsed.threw],
      error |-> NULL]

----------------------------------------------------------------------------
\* checkSSH: the outcomes it resolves with.  motd is what the session wrote:
\* whether it holds 'System restart required' and the count N of
\* 'N updates can be applied immediately' (0 also when the line is missing).

SshTimeout ==
  [success |-> FALSE, error |-> "SSH timeout", rebootRequired |-> FALSE, updates |-> NULL]

SshOnClose(motd) ==
  [success |-> TRUE, error |-> NULL, rebootRequired |-> motd.restart,
   updates |-> IF motd.count # 0 THEN "updates" ELSE NULL]

Motds == {[restart |-> FALSE, count |-> 0], [restart |-> TRUE, count |-> 0],
          [restart |-> FALSE, count |-> 3]}

----------------------------------------------------------------------------
\* checkServer: the status rules

ApiStatusNoMismatchRule(apiResult) ==
  LET status ==
        IF ~apiResult.statusOk /\ apiResult.responseOk = NULL THEN "DOWN"
        ELSE IF apiResult.responseOk = "false" THEN "UNHEALTHY"
        ELSE "UP"
  IN IF apiResult.success THEN "UP" ELSE status

\* type 'api', lines 332-353
ApiStatus(apiResult) ==
  LET status ==
        IF ~apiResult.statusOk /\ apiResult.responseOk = NULL THEN "DOWN"
        ELSE IF ~apiResult.statusOk THEN "DOWN"
        ELSE IF apiResult.responseOk = "false" THEN "UNHEALTHY"
        ELSE "UP"
  IN IF apiResult.success THEN "UP" ELSE status

SshStatusAsOverlay(sshResult) ==
  IF ~sshResult.success THEN "DEGRADED"
  ELSE IF sshResult.rebootRequired \/ TruthyStr(sshResult.updates) THEN "MAINTENANCE"
  ELSE "UP"

\* type 'ssh', lines 296-307
SshStatus(sshResult) ==
  IF ~sshResult.success THEN "DOWN"
  ELSE IF sshResult.rebootRequired \/ TruthyStr(sshResult.updates) THEN "MAINTENANCE"
  ELSE "UP"

PingApiStatusPingFirst(pingOk, apiResult) ==
  IF ~pingOk THEN "DOWN"
  ELSE IF ~apiResult.statusOk /\ apiResult.responseOk = NULL THEN "DEGRADED"
  ELSE IF ~apiResult.statusOk THEN "DEGRADED"
  ELSE IF apiResult.responseOk = "false" THEN "UNHEALTHY"
  ELSE "UP"

\* type 'all', lines 403-434: the status from ping and API alone
PingApiStatus(pingOk, apiResult) ==
  IF ~pingOk /\ ~apiResult.success THEN "DOWN"
  ELSE IF ~pingOk THEN "DEGRADED"
  ELSE IF ~apiResult.statusOk /\ apiResult.responseOk = NULL THEN "DEGRADED"
  ELSE IF ~apiResult.statusOk THEN "DEGRADED"
  ELSE IF apiResult.responseOk = "false" THEN "UNHEALTHY"
  ELSE "UP"

SshOverlayUnguarded(status, sshResult) ==
  IF sshResult # NoSsh /\ ~sshResult.success THEN "DEGRADED"
  ELSE IF sshResult # NoSsh /\ (sshResult.rebootRequired \/ TruthyStr(sshResult.updates))
    THEN "MAINTENANCE"
  ELSE status

SshOverlayRebootOnly(status, sshResult) ==
  IF sshResult # NoSsh /\ ~sshResult.success
    THEN (IF status = "UP" THEN "DEGRADED" ELSE status)
  ELSE IF sshResult # NoSsh /\ sshResult.rebootRequired
    THEN (IF status = "UP" THEN "MAINTENANCE" ELSE status)
  ELSE status

\* type 'all', lines 436-448: the SSH overlay
SshOverlay(status, sshResult) ==
  IF sshResult # NoSsh /\ ~sshResult.success
    THEN (IF status = "UP" THEN "DEGRADED" ELSE status)
  ELSE IF sshResult # NoSsh /\ (sshResult.rebootRequired \/ TruthyStr(sshResult.updates))
    THEN (IF status = "UP" THEN "MAINTENANCE" ELSE status)
  ELSE status

UnifiedStatus(pingOk, apiResult, sshResult) ==
  SshOverlay(PingApiStatus(pingOk, apiResult), sshResult)

\* type 'all': combinedError of the same two blocks
CombinedError(pingOk, apiResult, sshResult) ==
  LET base == IF ~pingOk /\ ~apiResult.success THEN "Both ping and API failed"
              ELSE IF ~pingOk THEN "Network issue (ping failed)"
              ELSE IF ~apiResult.statusOk /\ apiResult.responseOk = NULL
                THEN (IF TruthyStr(apiResult.error) THEN apiResult.error ELSE "HTTP N/A")
              ELSE IF ~apiResult.statusOk THEN "API returned wrong status"
              ELSE IF apiResult.responseOk = "false" THEN "Health check failed"
              ELSE NULL
  IN IF sshResult # NoSsh /\ ~sshResult.success /\ PingApiStatus(pingOk, apiResult) = "UP"
       THEN sshResult.error
       ELSE base

----------------------------------------------------------------------------
\* Configuration (config.js).  Unset fields hold NULL, 0 or NoExpect; an
\* expectedStatus of 0 stands for undefined, which no status code equals.

NoSshCfg == [unset |-> TRUE]         \* server.ssh not configured

Defaults ==
  [target |-> NULL, apiTarget |-> NULL, timeout |-> TickMs, expectedStatus |-> 200,
   expectedResponse |-> NoExpect, host |-> NULL, port |-> 0, username |-> NULL,
   sshCheckInterval |-> 0, ssh |-> NoSshCfg, groupName |-> NULL]

Urls == {"https://a/health", "http://b/health"}

PingT(n) == [name |-> n, type |-> "ping", target |-> "10.0.0.1"] @@ Defaults
\* a ping target with its own timeout
PingIn(n, ms) == [PingT(n) EXCEPT !.timeout = ms]
ApiT(n, url, exp) ==
  [name |-> n, type |-> "api", target |-> url, expectedResponse |-> exp] @@ Defaults
SshT(n, h, p, u, int) ==
  [name |-> n, type |-> "ssh", host |-> h, port |-> p, username |-> u,
   sshCheckInterval |-> int] @@ Defaults
AllT(n, url, exp, sshCfg) ==
  [name |-> n, type |-> "all", target |-> "10.0.0.2", apiTarget |-> url,
   expectedResponse |-> exp, ssh |-> sshCfg] @@ Defaults
OtherT(n) == [name |-> n, type |-> "http", target |-> "10.0.0.3"] @@ Defaults
GroupT(n, children) == [name |-> n, type |-> "group", servers |-> children]

SshCfg(en, h, p, u, int) ==
  [enabled |-> en, host |-> h, port |-> p, username |-> u, checkInterval |-> int]

StatusOk == Expect(<<"status">>, JStr("ok"))

Config(interval, list) == [refreshInterval |-> interval, servers |-> list]

CfgUnifiedSsh ==
  Config(2 * TickMs,
         <<AllT("web", "https://a/health", StatusOk, SshCfg(TRUE, NULL, 0, "ops", 0))>>)
CfgUnified ==
  Config(2 * TickMs, <<AllT("db", "https://a/health", StatusOk, NoSshCfg)>>)
CfgSameKey ==
  Config(TickMs, <<SshT("s1", "10.0.0.2", 22, "ops", 2 * TickMs),
                   SshT("s2", "10.0.0.2", 0, "ops", 0)>>)
CfgMixed ==
  Config(3 * TickMs,
         <<SshT("s1", "10.0.0.2", 22, "ops", 2 * TickMs),
           AllT("web", "https://a/health", NoExpect, SshCfg(TRUE, NULL, 0, "ops", TickMs))>>)
CfgGroup ==
  Config(2 * TickMs,
         <<PingIn("gw", 1000), GroupT("edge", <<ApiT("api", "https://a/health", StatusOk),
                                         ApiT("bad", "nowhere", NoExpect)>>)>>)
CfgGroupOther ==
  Config(TickMs,
         <<GroupT("lab", <<PingIn("p1", 1500), OtherT("x1")>>), ApiT("api", NULL, NoExpect)>>)
CfgOther == Config(TickMs, <<OtherT("x2"), PingIn("p2", 999)>>)
\* the assertion names a property of the string found at 'status'
CfgPath ==
  Config(3 * TickMs,
         <<AllT("len", "https://a/health", Expect(<<"status", "length">>, JNum(2)),
                SshCfg(TRUE, NULL, 0, "ops", 0))>>)
\* expectedStatus is left out
CfgNoStatus ==
  Config(3 * TickMs,
         <<[AllT("bare", "http://b/health", NoExpect, SshCfg(TRUE, NULL, 0, "ops", 0))
              EXCEPT !.expectedStatus = 0]>>)
\* two hosts, one cache entry each
CfgTwoKeys ==
  Config(3 * TickMs, <<SshT("s3", "10.0.0.4", 22, "ops", 0),
                       SshT("s4", "10.0.0.5", 22, "ops", 0)>>)
\* a ping allowed to take longer than the refresh interval
CfgSlowPing == Config(TickMs, <<PingIn("far", 2 * TickMs)>>)

Configs ==
  {CfgUnifiedSsh, CfgUnified, CfgSameKey, CfgMixed, CfgGroup, CfgGroupOther, CfgOther,
   CfgPath, CfgNoStatus, CfgTwoKeys, CfgSlowPing}

----------------------------------------------------------------------------
\* checkAllServers, lines 493-505: the leaf targets in call order, and the
\* configuration after the loop has labelled the children of each group

\* the children pushed without the assignment of groupName
LabelChildrenForgotten(entry) == entry

LabelChildren(entry) ==
  IF entry.type = "group"
    THEN [entry EXCEPT !.servers =
            [j \in DOMAIN entry.servers |-> [entry.servers[j] EXCEPT !.groupName = entry.name]]]
    ELSE entry

Labelled(list) == [i \in DOMAIN list |-> LabelChildren(list[i])]

RECURSIVE Leaves(_)
Leaves(list) ==
  IF list = <<>> THEN <<>>
  ELSE (IF Head(list).type = "group" THEN LabelChildren(Head(list)).servers
        ELSE <<Head(list)>>) \o Leaves(Tail(list))

----------------------------------------------------------------------------
\* The SSH cache, lines 270-285 and 378-390

SshHost(server) == IF server.type = "ssh" THEN server.host
                   ELSE IF TruthyStr(server.ssh.host) THEN server.ssh.host ELSE server.target
SshUser(server) == IF server.type = "ssh" THEN server.username ELSE server.ssh.username
SshPort(server) ==
  LET port == IF server.type = "ssh" THEN server.port ELSE server.ssh.port
  IN IF port # 0 THEN port ELSE IF TruthyStr(SshUser(server)) THEN 22 ELSE 0

cacheKey(server) == <<SshHost(server), SshPort(server), SshUser(server)>>

checkInterval(server) ==
  LET configured == IF server.type = "ssh" THEN server.sshCheckInterval
                    ELSE server.ssh.checkInterval
  IN IF configured # 0 THEN configured ELSE DefaultCheckInterval

UsesSsh(server) ==
  \/ server.type = "ssh"
  \/ server.type = "all" /\ server.ssh # NoSshCfg /\ server.ssh.enabled

CacheValidForever(cache, server, time) == cacheKey(server) \in DOMAIN cache

\* only the entry of a probe that succeeded is used again
CacheValidOnSuccess(cache, server, time) ==
  /\ cacheKey(server) \in DOMAIN cache
  /\ cache[cacheKey(server)].result.success
  /\ time - cache[cacheKey(server)].timestamp < checkInterval(server)

\* the entry is present and timeSinceLastCheck < checkInterval
CacheValid(cache, server, time) ==
  /\ cacheKey(server) \in DOMAIN cache
  /\ time - cache[cacheKey(server)].timestamp < checkInterval(server)

----------------------------------------------------------------------------
\* One call of checkServer

IdleApi == [timer |-> "none", deadline |-> 0, req |-> "none", res |-> "none",
            data |-> "", outcome |-> NoApi]
IdleSsh == [proc |-> "none", timer |-> "none", deadline |-> 0, outcome |-> NoSsh,
            cached |-> FALSE, readAt |-> NoTimer]
\* calls counts the calls of ping, checkApi and checkSSH and the uses of a
\* cached SSH result; pingWait is the -W argument of the ping command while
\* the child process runs
NoCalls == [ping |-> 0, api |-> 0, ssh |-> 0, cached |-> 0]
IdleTask == [pc |-> "idle", pingWait |-> 0, pingResult |-> FALSE, api |-> IdleApi,
             ssh |-> IdleSsh, sshResult |-> NoSsh, calls |-> NoCalls, result |-> NoResult]

NoDetails == [none |-> TRUE]

MakeResult(server, status, error, details, sshInfo) ==
  [name |-> server.name, type |-> server.type, status |-> status, error |-> error,
   details |-> details, sshInfo |-> sshInfo, groupName |-> NULL]

\* lines 483-485: label the result and return it
Finish(server, t, result) ==
  IF TruthyStr(server.groupName)
    THEN IF result = NoResult
           THEN [t EXCEPT !.pc = "rejected"]       \* TypeError outside the try block
           ELSE [t EXCEPT !.pc = "done",
                          !.result = [result EXCEPT !.groupName = server.groupName]]
    ELSE [t EXCEPT !.pc = "done", !.result = result]

\* lines 470-481: the catch block
Caught(server, t, message) ==
  Finish(server, t, MakeResult(server, "ERROR", message, NoDetails, NoSsh))

\* lines 296-322 and 402-468: the status once every probe has answered
Conclude(server, t) ==
  IF server.type = "ssh"
    THEN Finish(server, t,
           MakeResult(server, SshStatus(t.sshResult),
                      IF t.sshResult.success THEN NULL ELSE t.sshResult.error,
                      [rebootRequired |-> t.sshResult.rebootRequired,
                       updates |-> t.sshResult.updates],
                      t.sshResult))
    ELSE Finish(server, t,
           MakeResult(server, UnifiedStatus(t.pingResult, t.api.outcome, t.sshResult),
                      CombinedError(t.pingResult, t.api.outcome, t.sshResult),
                      [pingOk |-> t.pingResult, apiStatusOk |-> t.api.outcome.statusOk,
                       responseOk |-> t.api.outcome.responseOk],
                      t.sshResult))

SshStepNoCache(server, t, cache, time) ==
  [t EXCEPT !.pc = "ssh", !.ssh.proc = "running", !.ssh.timer = "armed",
            !.ssh.deadline = time + SshKillMs, !.ssh.readAt = time,
            !.calls.ssh = @ + 1]

\* lines 276-289 and 384-394: read the cache, call checkSSH when it has no valid entry
SshStep(server, t, cache, time) ==
  IF CacheValid(cache, server, time)
    THEN Conclude(server,
           [t EXCEPT !.sshResult = cache[cacheKey(server)].result,
                     !.ssh.cached = TRUE, !.ssh.readAt = time,
                     !.calls.cached = @ + 1])
    ELSE [t EXCEPT !.pc = "ssh", !.ssh.proc = "running", !.ssh.timer = "armed",
                   !.ssh.deadline = time + SshKillMs, !.ssh.readAt = time,
                   !.calls.ssh = @ + 1]

\* the cache replaced by an object holding the new entry alone
PutAlone(cache, key, entry) == [k \in {key} |-> entry]

Put(cache, key, entry) ==
  [k \in DOMAIN cache \cup {key} |-> IF k = key THEN entry ELSE cache[k]]

\* an entry another call has stored in the meantime is kept
StoreSshUnlessFresh(cache, server, outcome, time) ==
  IF CacheValid(cache, server, time)
    THEN cache
    ELSE Put(cache, cacheKey(server), [result |-> outcome, timestamp |-> time])

\* lines 289-294 and 394-399: checkSSH has answered; store and go on
StoreSsh(cache, server, outcome, time) ==
  Put(cache, cacheKey(server), [result |-> outcome, timestamp |-> time])

AfterSsh(server, t, outcome) == Conclude(server, [t EXCEPT !.sshResult = outcome])

\* lines 153-165: checkApi up to its first wait.  A target that is no string
\* or no URL makes the executor throw after the timer has been armed.
UrlFault(url) ==
  IF url = NULL THEN "Cannot read properties of undefined (reading 'startsWith')"
  ELSE IF url \notin Urls THEN "Invalid URL"
  ELSE NULL

ApiBegin(server, t, url, time) ==
  LET armed == [t EXCEPT !.api.timer = "armed", !.api.deadline = time + server.timeout,
                         !.calls.api = @ + 1]
  IN IF UrlFault(url) # NULL
       THEN Caught(server, armed, UrlFault(url))
       ELSE [armed EXCEPT !.pc = "api", !.api.req = "open"]

\* lines 331-364 and 375-400: checkApi has answered
AfterApi(server, t, cache, time) ==
  IF server.type = "api"
    THEN Finish(server, t,
           MakeResult(server, ApiStatus(t.api.outcome), t.api.outcome.error,
                      [statusOk |-> t.api.outcome.statusOk,
                       responseOk |-> t.api.outcome.responseOk],
                      NoSsh))
    ELSE IF UsesSsh(server) THEN SshStep(server, t, cache, time)
    ELSE Conclude(server, t)

\* exit status 0 taken for success, whatever the output says
pingByExitStatus(behaviour) == behaviour \in {"reply", "loss"}

\* lines 40-50: ping resolves true only for a clean reply
ping(behaviour) == behaviour = "reply"

\* what the child process does: exit 0 with the success line, exit 0 with
\* other output, a non-zero exit, or the kill when exec's timeout expires
PingBehaviours == {"reply", "loss", "exit1", "killed"}

\* a failed ping tried once more before its answer is taken
AfterPingRetry(server, t, isAlive, time) ==
  IF ~isAlive /\ t.calls.ping < 2
    THEN [t EXCEPT !.calls.ping = @ + 1]
    ELSE IF server.type = "ping"
      THEN Finish(server, t,
             MakeResult(server, IF isAlive THEN "UP" ELSE "DOWN", NULL, NoDetails, NoSsh))
      ELSE ApiBegin(server, [t EXCEPT !.pingResult = isAlive, !.pingWait = 0],
                    server.apiTarget, time)

\* lines 256-267 and 367-373: ping has answered
AfterPing(server, t, isAlive, time) ==
  IF server.type = "ping"
    THEN Finish(server, t,
           MakeResult(server, IF isAlive THEN "UP" ELSE "DOWN", NULL, NoDetails, NoSsh))
    ELSE ApiBegin(server, [t EXCEPT !.pingResult = isAlive, !.pingWait = 0],
                  server.apiTarget, time)

\* line 22: the unit of ping's -W option, seconds on Linux
PING_IN_MILLISECONDS == IF isLinux THEN 1000 ELSE 1

\* the wait rounded up to a whole unit
pingWaitRoundedUp(timeout) ==
  (timeout + PING_IN_MILLISECONDS - 1) \div PING_IN_MILLISECONDS

\* line 42: Math.floor(timeout / PING_IN_MILLISECONDS), the -W argument
pingWait(timeout) == timeout \div PING_IN_MILLISECONDS

\* lines 40-43: ping starts the child process
PingBegin(server, t) ==
  [t EXCEPT !.pc = "ping", !.pingWait = pingWait(server.timeout), !.calls.ping = @ + 1]

\* lines 251-469: checkServer up to its first wait
StartTask(server, cache, time) ==
  CASE server.type = "ping" -> PingBegin(server, IdleTask)
    [] server.type = "all" -> PingBegin(server, IdleTask)
    [] server.type = "ssh" -> SshStep(server, IdleTask, cache, time)
    [] server.type = "api" -> ApiBegin(server, IdleTask, server.target, time)
    [] OTHER -> Finish(server, IdleTask, NoResult)

----------------------------------------------------------------------------
\* checkAllServers and start

IdleCycle == [state |-> "idle", startedAt |-> 0]

\* Promise.all over the promises of checkServer
PromiseAll(ts) ==
  IF \E i \in DOMAIN ts : ts[i].pc = "rejected" THEN "rejected"
  ELSE IF \A i \in DOMAIN ts : ts[i].pc = "done" THEN "resolved"
  ELSE "running"

CollectedInReverse(ts) == [i \in DOMAIN ts |-> ts[Len(ts) + 1 - i].result]

\* line 507: the value of Promise.all, one element per promise, by position
Collected(ts) == [i \in DOMAIN ts |-> ts[i].result]

\* displayTable reads r.status of every element (line 597)
Displayable(list) == \A i \in DOMAIN list : list[i] # NoResult

\* A call of checkServer that has returned and has no process, request or
\* timer left is garbage: only the value of its promise remains.
Quiescent(t) ==
  /\ t.pc \in {"done", "rejected"}
  /\ t.api.timer # "armed"
  /\ t.api.req # "open"
  /\ t.ssh.timer # "armed"
  /\ t.ssh.proc \notin {"running", "killed"}

Collect(t) ==
  IF Quiescent(t)
    THEN [IdleTask EXCEPT !.pc = t.pc, !.calls = t.calls, !.result = t.result]
    ELSE t

\* Line 507 and the caller (lines 667-674): once Promise.all has settled,
\* this.results is assigned and the table is displayed; the first display is
\* followed by setInterval.  ts are the tasks of cycle c after this step,
\* startedAt the time checkAllServers was called, timer the interval timer.
Settle(c, ts, startedAt, timer) ==
  LET before == IF cycles[c].state = "idle" THEN "running" ELSE cycles[c].state
      after == IF before = "running" THEN PromiseAll(ts) ELSE before
      list == Collected(ts)
      completes == before = "running" /\ after = "resolved"
      shown == completes /\ Displayable(list)
      over == after # "running" /\ \A i \in DOMAIN ts : Quiescent(ts[i])
  IN /\ tasks' = [tasks EXCEPT ![c] = IF over THEN <<>>
                                      ELSE [i \in DOMAIN ts |-> Collect(ts[i])]]
     /\ probes' = [probes EXCEPT ![c] = [i \in DOMAIN ts |-> ts[i].calls]]
     /\ cycles' = [cycles EXCEPT ![c] = [state |-> after,
                                         startedAt |-> IF over THEN 0 ELSE startedAt]]
     /\ results' = IF completes THEN list ELSE results
     /\ displayed' = IF shown THEN list ELSE displayed
     /\ displayedFrom' = IF shown THEN c ELSE displayedFrom
     /\ nextRefresh' = IF shown /\ c = 1 THEN now + refreshInterval ELSE timer

\* the tasks awaited one after the other: a task waits for those before it
StepInTurn(c, i, t) ==
  /\ \A j \in 1..(i - 1) : tasks[c][j].pc \in {"done", "rejected"}
  /\ Settle(c, [tasks[c] EXCEPT ![i] = t], cycles[c].startedAt, nextRefresh)

\* one task of a running or settled cycle takes a step
Step(c, i, t) ==
  Settle(c, [tasks[c] EXCEPT ![i] = t], cycles[c].startedAt, nextRefresh)

\* lines 491-507: checkAllServers up to its await
checkAllServers(c, timer) ==
  LET leaves == Leaves(servers)
  IN /\ servers' = Labelled(servers)
     /\ Settle(c, [i \in DOMAIN leaves |-> StartTask(leaves[i], sshCache, now)], now, timer)
     /\ UNCHANGED <<refreshInterval, now, sshCache, isLinux>>

\* line 667: the initial check
Start ==
  /\ cycles[1].state = "idle"
  /\ checkAllServers(1, nextRefresh)

\* lines 671-674: the interval callback
Refresh ==
  /\ nextRefresh # NoTimer
  /\ now >= nextRefresh
  /\ \E c \in 2..MaxCycles :
       /\ cycles[c].state = "idle"
       /\ cycles[c - 1].state # "idle"
       /\ checkAllServers(c, nextRefresh + refreshInterval)

Leaf(i) == Leaves(servers)[i]

----------------------------------------------------------------------------
\* ping: the child process ends (exec's timeout kills it at the latest)

PingDeadline(c, i) == cycles[c].startedAt + Leaf(i).timeout

PingExit(c, i, behaviour) ==
  /\ tasks[c][i].pc = "ping"
  /\ behaviour = "killed" => now >= PingDeadline(c, i)
  /\ Step(c, i, AfterPing(Leaf(i), tasks[c][i], ping(behaviour), now))
  /\ UNCHANGED <<servers, refreshInterval, now, sshCache, isLinux>>

----------------------------------------------------------------------------
\* checkApi: its callbacks.  resolve() settles the promise the first time it
\* is called and does nothing afterwards.

ClearTimeout(timer) == IF timer = "armed" THEN "cleared" ELSE timer

Resolve(c, i, t, outcome) ==
  IF t.pc = "api" /\ t.api.outcome = NoApi
    THEN AfterApi(Leaf(i), [t EXCEPT !.api.outcome = outcome], sshCache, now)
    ELSE t

\* lines 154-162: the timer of checkApi
ApiTimerFired(t) == [t EXCEPT !.api.timer = "fired"]

ApiTimer(c, i) ==
  /\ tasks[c][i].api.timer = "armed"
  /\ now >= tasks[c][i].api.deadline
  /\ Step(c, i, Resolve(c, i, ApiTimerFired(tasks[c][i]), ApiFailure("Timeout")))
  /\ UNCHANGED <<servers, refreshInterval, now, sshCache, isLinux>>

\* lines 165-171: the response callback (status line and headers are in)
ApiHeaders(t) == [t EXCEPT !.api.timer = ClearTimeout(@), !.api.res = "streaming"]

ApiResponse(c, i) ==
  /\ tasks[c][i].api.req = "open"
  /\ tasks[c][i].api.res = "none"
  /\ Step(c, i, ApiHeaders(tasks[c][i]))
  /\ UNCHANGED <<servers, refreshInterval, now, sshCache, isLinux>>

\* lines 173-220: the body has ended; statusCode is res.statusCode, which
\* nothing reads before this handler
ApiEnd(c, i, statusCode, data) ==
  LET t == tasks[c][i]
      server == Leaf(i)
  IN /\ t.api.req = "open"
     /\ t.api.res = "streaming"
     /\ Step(c, i, Resolve(c, i, [t EXCEPT !.api.res = "ended", !.api.req = "closed",
                                           !.api.data = data],
                           ApiOnEnd(statusCode, data, server.expectedStatus,
                                    server.expectedResponse)))
     /\ UNCHANGED <<servers, refreshInterval, now, sshCache, isLinux>>

\* the response breaks off before its end: no handler is registered for that
ApiAborted(c, i) ==
  /\ tasks[c][i].api.req = "open"
  /\ tasks[c][i].api.res = "streaming"
  /\ Step(c, i, [tasks[c][i] EXCEPT !.api.res = "aborted", !.api.req = "closed"])
  /\ UNCHANGED <<servers, refreshInterval, now, sshCache, isLinux>>

\* lines 223-232: the request fails before a response
ApiError(c, i, message) ==
  LET t == tasks[c][i]
  IN /\ t.api.req = "open"
     /\ t.api.res = "none"
     /\ Step(c, i, Resolve(c, i, [t EXCEPT !.api.timer = ClearTimeout(@),
                                           !.api.req = "closed"],
                           ApiFailure(message)))
     /\ UNCHANGED <<servers, refreshInterval, now, sshCache, isLinux>>

\* lines 234-244: the socket reports an idle timeout (when the runtime or its
\* agent sets one; checkApi itself sets none)
ApiSocketTimeout(c, i) ==
  LET t == tasks[c][i]
  IN /\ t.api.req = "open"
     /\ Step(c, i, Resolve(c, i, [t EXCEPT !.api.timer = ClearTimeout(@),
                                           !.api.req = "destroyed"],
                           ApiFailure("Timeout")))
     /\ UNCHANGED <<servers, refreshInterval, now, sshCache, isLinux>>

----------------------------------------------------------------------------
\* checkSSH: its callbacks

\* the close handler taken to settle the call whenever it runs
SshCloseSettlesAgain(c, i, motd) ==
  LET t == tasks[c][i]
      closed == [t EXCEPT !.ssh.timer = ClearTimeout(@), !.ssh.proc = "closed"]
      outcome == SshOnClose(motd)
  IN /\ t.ssh.proc \in {"running", "killed"}
     /\ t.ssh.proc = "killed" => motd = [restart |-> FALSE, count |-> 0]
     /\ sshCache' = StoreSsh(sshCache, Leaf(i), outcome, now)
     /\ Step(c, i, AfterSsh(Leaf(i), [closed EXCEPT !.ssh.outcome = outcome], outcome))
     /\ UNCHANGED <<servers, refreshInterval, now, isLinux>>

\* lines 126-148: the session has closed; lines 289-294, 394-399 follow when
\* this settles the promise
SshClose(c, i, motd) ==
  LET t == tasks[c][i]
      closed == [t EXCEPT !.ssh.timer = ClearTimeout(@), !.ssh.proc = "closed"]
      outcome == SshOnClose(motd)
  IN /\ t.ssh.proc \in {"running", "killed"}
     /\ t.ssh.proc = "killed" => motd = [restart |-> FALSE, count |-> 0]
     /\ IF t.ssh.outcome = NoSsh
          THEN /\ sshCache' = StoreSsh(sshCache, Leaf(i), outcome, now)
               /\ Step(c, i, AfterSsh(Leaf(i), [closed EXCEPT !.ssh.outcome = outcome],
                                      outcome))
          ELSE /\ sshCache' = sshCache
               /\ Step(c, i, closed)
     /\ UNCHANGED <<servers, refreshInterval, now, isLinux>>

\* lines 107-116: the 15 s timer kills the session
SshTimer(c, i) ==
  LET t == tasks[c][i]
      killed == [t EXCEPT !.ssh.timer = "fired", !.ssh.proc = "killed",
                          !.ssh.outcome = SshTimeout]
  IN /\ t.ssh.timer = "armed"
     /\ now >= t.ssh.deadline
     /\ sshCache' = StoreSsh(sshCache, Leaf(i), SshTimeout, now)
     /\ Step(c, i, AfterSsh(Leaf(i), killed, SshTimeout))
     /\ UNCHANGED <<servers, refreshInterval, now, isLinux>>

----------------------------------------------------------------------------
\* The clock.  A timer that is due fires before time moves on.

Due ==
  \/ \E c \in 1..MaxCycles : \E i \in DOMAIN tasks[c] :
        \/ tasks[c][i].api.timer = "armed" /\ tasks[c][i].api.deadline <= now
        \/ tasks[c][i].ssh.timer = "armed" /\ tasks[c][i].ssh.deadline <= now
        \/ tasks[c][i].pc = "ping" /\ PingDeadline(c, i) <= now
  \/ /\ nextRefresh # NoTimer
     /\ nextRefresh <= now
     /\ \E c \in 1..MaxCycles : cycles[c].state = "idle"
  \/ cycles[1].state = "idle"

Tick ==
  /\ now < MaxTime
  /\ ~Due
  /\ now' = now + TickMs
  /\ UNCHANGED <<servers, refreshInterval, sshCache, results, displayed, displayedFrom,
                 isLinux, cycles, tasks, probes, nextRefresh>>

----------------------------------------------------------------------------
Init ==
  /\ \E cfg \in Configs : servers = cfg.servers /\ refreshInterval = cfg.refreshInterval
  /\ now = 0
  /\ sshCache = <<>>
  /\ results = <<>>
  /\ displayed = <<>>
  /\ displayedFrom = 0
  /\ isLinux \in BOOLEAN
  /\ cycles = [c \in 1..MaxCycles |-> IdleCycle]
  /\ tasks = [c \in 1..MaxCycles |-> <<>>]
  /\ probes = [c \in 1..MaxCycles |-> <<>>]
  /\ nextRefresh = NoTimer

\* the calls of checkServer that exist: <<cycle, position>>
Tasks == {ci \in (1..MaxCycles) \X DOMAIN Leaves(servers) :
            cycles[ci[1]].state # "idle" /\ ci[2] \in DOMAIN tasks[ci[1]]}

PingExits == \E ci \in Tasks : \E b \in PingBehaviours : PingExit(ci[1], ci[2], b)
ApiTimers == \E ci \in Tasks : ApiTimer(ci[1], ci[2])
ApiResponses == \E ci \in Tasks : ApiResponse(ci[1], ci[2])
ApiEnds ==
  \E ci \in Tasks : \E code \in {200, 500} : \E data \in Texts :
    ApiEnd(ci[1], ci[2], code, data)
ApiAborts == \E ci \in Tasks : ApiAborted(ci[1], ci[2])
ApiErrors == \E ci \in Tasks : ApiError(ci[1], ci[2], "ECONNREFUSED")
ApiSocketTimeouts == \E ci \in Tasks : ApiSocketTimeout(ci[1], ci[2])
SshCloses == \E ci \in Tasks : \E motd \in Motds : SshClose(ci[1], ci[2], motd)
SshTimers == \E ci \in Tasks : SshTimer(ci[1], ci[2])

Next ==
  \/ Start
  \/ Refresh
  \/ Tick
  \/ PingExits
  \/ ApiTimers
  \/ ApiResponses
  \/ ApiEnds
  \/ ApiAborts
  \/ ApiErrors
  \/ ApiSocketTimeouts
  \/ SshCloses
  \/ SshTimers

Spec == Init /\ [][Next]_vars

----------------------------------------------------------------------------
\* Properties

\* every result record a call of checkServer has returned and that is still held
Produced ==
  {results[i] : i \in DOMAIN results}
    \cup {displayed[i] : i \in DOMAIN displayed}
    \cup UNION {{tasks[c][i].result : i \in DOMAIN tasks[c]} : c \in 1..MaxCycles}

Unified == {r \in Produced : IsRecord(r) /\ r.type = "all" /\ r.status # "ERROR"}

\* the ping/API rules as the specification words them: statusMatched is
\* details.apiStatusOk, bodyMatched = false is details.responseOk = false
ApiFailed(d) == ~(d.apiStatusOk /\ d.responseOk # "false")
Baseline(d) ==
  IF ~d.pingOk /\ ApiFailed(d) THEN "DOWN"
  ELSE IF ~d.pingOk THEN "DEGRADED"
  ELSE IF ~d.apiStatusOk THEN "DEGRADED"
  ELSE IF d.responseOk = "false" THEN "UNHEALTHY"
  ELSE "UP"

\* C1: for a Unified target, a ping/API status of Down, Degraded or Unhealthy
\* is the final status whatever the SSH outcome is; only a ping/API status
\* of Up is changed by the SSH overlay.
Thm_C1 ==
  \A r \in Unified :
    /\ Baseline(r.details) \in {"DOWN", "DEGRADED", "UNHEALTHY"} => r.status = Baseline(r.details)
    /\ r.status # Baseline(r.details) => Baseline(r.details) = "UP" /\ r.sshInfo # NoSsh

Wit_C1 ==
  \E r \in Unified :
    /\ r.sshInfo # NoSsh
    /\ ~r.sshInfo.success
    /\ r.status = "UNHEALTHY"

\* C2: for a Unified target without SSH outcome the status is Down iff ping
\* failed and the API failed, Degraded iff ping failed and the API did not
\* fail or ping succeeded and the HTTP status did not match, Unhealthy iff
\* ping succeeded, the HTTP status matched and the body did not, Up otherwise.
Thm_C2 ==
  \A r \in Unified :
    r.sshInfo = NoSsh =>
      LET d == r.details
      IN /\ r.status = "DOWN" <=> (~d.pingOk /\ ApiFailed(d))
         /\ r.status = "DEGRADED" <=>
              ((~d.pingOk /\ ~ApiFailed(d)) \/ (d.pingOk /\ ~d.apiStatusOk))
         /\ r.status = "UNHEALTHY" <=>
              (d.pingOk /\ d.apiStatusOk /\ d.responseOk = "false")
         /\ r.status = "UP" <=> (d.pingOk /\ d.apiStatusOk /\ d.responseOk # "false")

Wit_C2 ==
  \E r \in Unified :
    /\ r.sshInfo = NoSsh
    /\ ~r.details.pingOk
    /\ r.details.apiStatusOk /\ r.details.responseOk = "true"
    /\ r.status = "DEGRADED"

\* C3: for a Unified target whose ping/API status is Up, the final status
\* is Degraded when the SSH outcome is not reachable, else Maintenance when
\* a reboot is required or updates are pending, else Up; without SSH it is Up.
Thm_C3 ==
  \A r \in Unified :
    Baseline(r.details) = "UP" =>
      r.status = IF r.sshInfo = NoSsh THEN "UP"
                 ELSE IF ~r.sshInfo.success THEN "DEGRADED"
                 ELSE IF r.sshInfo.rebootRequired \/ r.sshInfo.updates # NULL
                   THEN "MAINTENANCE"
                 ELSE "UP"

Wit_C3 ==
  \E r \in Unified :
    /\ Baseline(r.details) = "UP"
    /\ r.sshInfo # NoSsh
    /\ r.sshInfo.success /\ r.sshInfo.rebootRequired
    /\ r.status = "MAINTENANCE"

\* C4: for an Api target every outcome of checkApi gives exactly the status
\* of the ordered table: Down when the HTTP status did not match (transport
\* error, timeout or mismatch), Unhealthy when it matched and the body did
\* not, Up otherwise; never Degraded or Maintenance.
Thm_C4 ==
  \A r \in Produced :
    IsRecord(r) /\ r.type = "api" =>
      /\ r.status \notin {"DEGRADED", "MAINTENANCE"}
      /\ r.details # NoDetails =>
           r.status = IF ~r.details.statusOk THEN "DOWN"
                      ELSE IF r.details.responseOk = "false" THEN "UNHEALTHY"
                      ELSE "UP"

Wit_C4 ==
  \E r \in Produced :
    /\ IsRecord(r) /\ r.type = "api" /\ r.details # NoDetails
    /\ ~r.details.statusOk /\ r.details.responseOk = "true" /\ r.error = NULL
    /\ r.status = "DOWN"

\* C5: a fault raised while evaluating one target becomes a result with
\* status Error for that target; it never rejects the call of checkServer
\* nor the cycle, and every sibling target gets its result.
CE_C5 ==
  /\ \A c \in 1..MaxCycles : cycles[c].state # "rejected"
  /\ \A c \in 1..MaxCycles : \A i \in DOMAIN tasks[c] : tasks[c][i].pc # "rejected"

\* The rest speaks of single calls of checkServer: call i of cycle c.
Calls == (1..MaxCycles) \X DOMAIN Leaves(servers)
Live(c, i) == cycles[c].state # "idle" /\ i \in DOMAIN tasks[c]

\* the time-to-live configured for a target (one hour when unset or 0)
Ttl(server) ==
  LET v == IF server.type = "ssh" THEN server.sshCheckInterval ELSE server.ssh.checkInterval
  IN IF v = 0 THEN 3600000 ELSE v

\* the cache holds an entry for the target's key that is younger than its ttl
FreshEntry(server) ==
  /\ cacheKey(server) \in DOMAIN sshCache
  /\ now - sshCache[cacheKey(server)].timestamp < Ttl(server)

\* in this step call (c, i) reads the SSH cache: an 'ssh' call when its cycle
\* starts, an 'all' call when its checkApi settles
ReadsCache(c, i) ==
  /\ UsesSsh(Leaf(i))
  /\ \/ Leaf(i).type = "ssh" /\ cycles[c].state = "idle" /\ cycles'[c].state # "idle"
     \/ /\ Leaf(i).type = "all"
        /\ Live(c, i)
        /\ tasks[c][i].pc = "api"
        /\ (tasks'[c] = <<>> \/ tasks'[c][i].pc # "api")

\* in this step call (c, i) invokes checkSSH
InvokesProbe(c, i) == tasks'[c] # <<>> /\ tasks'[c][i].pc = "ssh"

\* C6 as claimed: of two evaluations with the same cache key that start
\* within ttl of each other at most one invokes the SSH probe.
CE_C6 ==
  \A a \in Calls : \A b \in Calls :
    (/\ a # b
     /\ Live(a[1], a[2]) /\ Live(b[1], b[2])
     /\ tasks[a[1]][a[2]].ssh.readAt # NoTimer
     /\ tasks[b[1]][b[2]].ssh.readAt # NoTimer
     /\ cacheKey(Leaf(a[2])) = cacheKey(Leaf(b[2]))
     /\ tasks[b[1]][b[2]].ssh.readAt - tasks[a[1]][a[2]].ssh.readAt \in 0..(Ttl(Leaf(b[2])) - 1))
    => ~(tasks[a[1]][a[2]].ssh.proc # "none" /\ tasks[b[1]][b[2]].ssh.proc # "none")

\* C6 as amended: an evaluation invokes the SSH probe exactly when, at the
\* moment it reads the cache, there is no entry for its key with
\* now - fetchedAt < ttl; fetchedAt is the time the earlier probe finished.
Thm_C6 ==
  [][\A ci \in Calls :
       ReadsCache(ci[1], ci[2]) =>
         (InvokesProbe(ci[1], ci[2]) <=> ~FreshEntry(Leaf(ci[2])))]_vars

\* the probe runs again while an entry older than ttl is still in the cache
Wit_C6 ==
  \E ci \in Calls :
    /\ Live(ci[1], ci[2])
    /\ tasks[ci[1]][ci[2]].pc = "ssh"
    /\ cacheKey(Leaf(ci[2])) \in DOMAIN sshCache
    /\ tasks[ci[1]][ci[2]].ssh.readAt - sshCache[cacheKey(Leaf(ci[2]))].timestamp
         >= Ttl(Leaf(ci[2]))

\* in this step call (c, i) returns; Returned is the value it returns
Returns(c, i) ==
  /\ cycles[c].state = "idle" \/ (Live(c, i) /\ tasks[c][i].pc \notin {"done", "rejected"})
  /\ \/ tasks'[c] # <<>> /\ tasks'[c][i].pc = "done"
     \/ tasks'[c] = <<>> /\ cycles[c].state # "resolved" /\ cycles'[c].state = "resolved"
Returned(c, i) == IF tasks'[c] # <<>> THEN tasks'[c][i].result ELSE results'[i]

\* C7: an SSH outcome used for a status was fetched by that evaluation,
\* which then overwrites the cache entry with it, or was read from an entry
\* with now - fetchedAt < cacheTTL at the moment of the read.
Thm_C7 ==
  [][\A ci \in Calls :
       LET c == ci[1]
           i == ci[2]
       IN (Returns(c, i) /\ UsesSsh(Leaf(i)) /\ IsRecord(Returned(c, i))
             /\ Returned(c, i).status # "ERROR") =>
            IF Live(c, i) /\ tasks[c][i].pc = "ssh"
              THEN /\ cacheKey(Leaf(i)) \in DOMAIN sshCache'
                   /\ sshCache'[cacheKey(Leaf(i))] =
                        [result |-> Returned(c, i).sshInfo, timestamp |-> now]
              ELSE /\ FreshEntry(Leaf(i))
                   /\ Returned(c, i).sshInfo = sshCache[cacheKey(Leaf(i))].result]_vars

\* a later cycle has shown a status taken from an entry stored at time 0
Wit_C7 ==
  /\ cycles[2].state = "resolved"
  /\ now > 0
  /\ \E i \in DOMAIN displayed :
       /\ UsesSsh(Leaf(i))
       /\ cacheKey(Leaf(i)) \in DOMAIN sshCache
       /\ sshCache[cacheKey(Leaf(i))].timestamp = 0
       /\ displayed[i].sshInfo = sshCache[cacheKey(Leaf(i))].result

CE_C9 ==
  \A ci \in Calls :
    (Live(ci[1], ci[2]) /\ tasks[ci[1]][ci[2]].pc = "api")
      => now <= tasks[ci[1]][ci[2]].api.deadline

\* C10: once the timer of checkApi has made it return Timeout, its request
\* is no longer open.
CE_C10 ==
  \A ci \in Calls :
    (/\ Live(ci[1], ci[2])
     /\ tasks[ci[1]][ci[2]].api.timer = "fired"
     /\ tasks[ci[1]][ci[2]].api.outcome = ApiFailure("Timeout"))
    => tasks[ci[1]][ci[2]].api.req # "open"

\* C11: every call of checkApi returns exactly one outcome: a call whose
\* request is over (answered, failed or broken off) has returned one.
CE_C11 ==
  \A ci \in Calls :
    (/\ Live(ci[1], ci[2])
     /\ tasks[ci[1]][ci[2]].api.req \in {"closed", "destroyed"})
    => tasks[ci[1]][ci[2]].api.outcome # NoApi

\* the outcome a live call of checkApi has returned, and what was asked of it
Outcome(c, i) == tasks[c][i].api.outcome
Answered(c, i) == Live(c, i) /\ Outcome(c, i) # NoApi
Asserted(c, i) == Leaf(i).expectedResponse # NoExpect

\* C12 as claimed: bodyMatched is not-applicable (responseOk null) whenever
\* no assertion is configured or the HTTP status did not match.
CE_C12 ==
  \A ci \in Calls :
    (Answered(ci[1], ci[2]) /\ (~Asserted(ci[1], ci[2]) \/ ~Outcome(ci[1], ci[2]).statusOk))
    => Outcome(ci[1], ci[2]).responseOk = NULL

\* C12 as amended: responseOk is null exactly on a transport failure or
\* timeout; on a response that ended it is true, with no check detail, when
\* no assertion is configured or the HTTP status did not match; otherwise
\* it is false with parseError and actual null for a body that is no JSON,
\* and else the strict equality of the resolved and the expected value.
Thm_C12 ==
  \A ci \in Calls :
    Answered(ci[1], ci[2]) =>
      LET o == Outcome(ci[1], ci[2])
          expected == Leaf(ci[2]).expectedResponse
          parsed == JSONparse(tasks[ci[1]][ci[2]].api.data)
          evaluated == o.error = NULL /\ o.statusOk /\ Asserted(ci[1], ci[2])
      IN /\ o.error # NULL =>
              o.responseOk = NULL /\ ~o.statusOk /\ o.responseCheckDetails = NoCheck
         /\ (o.error = NULL /\ ~evaluated) =>
              o.responseOk = "true" /\ o.responseCheckDetails = NoCheck
         /\ (evaluated /\ parsed.threw) =>
              /\ o.responseOk = "false"
              /\ o.responseCheckDetails.parseError
              /\ o.responseCheckDetails.actual = JNull
         /\ (evaluated /\ ~parsed.threw) =>
              /\ ~o.responseCheckDetails.parseError
              /\ o.responseCheckDetails.actual = getValueByPath(parsed.value, expected.path)
              /\ o.responseOk = "true" <=>
                   StrictEquals(o.responseCheckDetails.actual, expected.value)
              /\ o.responseOk \in {"true", "false"}

\* an assertion is configured, the HTTP status did not match, and the outcome
\* says true without a check detail
Wit_C12 ==
  \E ci \in Calls :
    /\ Answered(ci[1], ci[2])
    /\ Asserted(ci[1], ci[2])
    /\ Outcome(ci[1], ci[2]).error = NULL
    /\ ~Outcome(ci[1], ci[2]).statusOk
    /\ Outcome(ci[1], ci[2]).responseOk = "true"
    /\ Outcome(ci[1], ci[2]).responseCheckDetails = NoCheck

\* C13: the status of an Ssh target is Down when its SSH outcome is not
\* reachable, else Maintenance when a reboot is required or updates are
\* pending, else Up; it is never anything else.
Thm_C13 ==
  \A r \in Produced :
    (IsRecord(r) /\ r.type = "ssh") =>
      /\ r.sshInfo # NoSsh
      /\ r.status = IF ~r.sshInfo.success THEN "DOWN"
                    ELSE IF r.sshInfo.rebootRequired \/ r.sshInfo.updates # NULL
                      THEN "MAINTENANCE"
                    ELSE "UP"

\* of two Ssh targets one is Down after the kill and one is in Maintenance
\* for pending updates alone
Wit_C13 ==
  /\ \E r \in Produced :
       /\ IsRecord(r) /\ r.type = "ssh"
       /\ r.sshInfo.success /\ ~r.sshInfo.rebootRequired /\ r.sshInfo.updates # NULL
       /\ r.status = "MAINTENANCE"
  /\ \E r \in Produced :
       IsRecord(r) /\ r.type = "ssh" /\ r.sshInfo = SshTimeout /\ r.status = "DOWN"

\* C14: ping never throws and is true only for a reply that matches the
\* success pattern; a Ping target is Up when ping is true, Down when it is
\* false, and never has a third status.
Thm_C14 ==
  /\ \A r \in Produced :
       (IsRecord(r) /\ r.type = "ping") => r.status \in {"UP", "DOWN"}
  /\ \A ci \in Calls :
       (Live(ci[1], ci[2]) /\ Leaf(ci[2]).type = "ping" /\ tasks[ci[1]][ci[2]].pc = "ping") =>
         \A b \in PingBehaviours :
           LET t == AfterPing(Leaf(ci[2]), tasks[ci[1]][ci[2]], ping(b), now)
           IN /\ t.pc = "done"
              /\ t.result.status = IF b = "reply" THEN "UP" ELSE "DOWN"

\* a Ping target has been displayed as Down
Wit_C14 ==
  \E i \in DOMAIN displayed : displayed[i].type = "ping" /\ displayed[i].status = "DOWN"

\* in this step the 15 s timer of call (c, i) fires
SshKilled(c, i) == tasks'[c] # <<>> /\ tasks'[c][i].ssh.timer = "fired"

CanProceed(c, i) ==
  LET t == tasks[c][i]
  IN /\ ENABLED Step(c, i, tasks[c][i])
     /\ t.pc = "ping" => ENABLED PingExit(c, i, "reply")
     /\ (t.api.req = "open" /\ t.api.res = "none") => ENABLED ApiResponse(c, i)
     /\ (t.api.timer = "armed" /\ now >= t.api.deadline) => ENABLED ApiTimer(c, i)
     /\ (t.ssh.timer = "armed" /\ now >= t.ssh.deadline) => ENABLED SshTimer(c, i)

\* a step of call (c, i) leaves every other call of its cycle as it was
LeavesOthersAlone(c, i) ==
  (Live(c, i) /\ tasks'[c] # <<>> /\ tasks'[c][i] # tasks[c][i]) =>
    \A j \in DOMAIN tasks[c] : j # i => tasks'[c][j] = tasks[c][j]

\* C16: the calls of checkServer of one cycle are independent: each can take
\* its own steps whatever state the others are in, and its step changes no
\* other call; only the SSH cache is shared.
Thm_C16 ==
  /\ [](\A ci \in Tasks : Len(tasks[ci[1]]) > 1 => CanProceed(ci[1], ci[2]))
  /\ [][\A ci \in Calls : LeavesOthersAlone(ci[1], ci[2])]_vars

\* one call waits for a response that has broken off and will never end,
\* while a call started after it has returned its result
Wit_C16 ==
  \E c \in 1..MaxCycles : \E i \in DOMAIN tasks[c] : \E j \in DOMAIN tasks[c] :
    /\ i < j
    /\ tasks[c][i].pc = "api" /\ tasks[c][i].api.res = "aborted"
    /\ tasks[c][j].pc = "done" /\ IsRecord(tasks[c][j].result)

\* the targets of the configuration as its author wrote them: name and group
\* of every target that is no group, in the order of the file
RECURSIVE Written(_)
Written(list) ==
  IF list = <<>> THEN <<>>
  ELSE LET entry == Head(list)
       IN (IF entry.type = "group"
             THEN [j \in DOMAIN entry.servers |->
                     [name |-> entry.servers[j].name, group |-> entry.name]]
             ELSE <<[name |-> entry.name, group |-> NULL]>>) \o Written(Tail(list))

\* C17: the result list follows the order of the configuration, the
\* children of a group standing together at the group's place; a result of
\* a child of a group carries the group's name, any other result no label.
Thm_C17 ==
  \A list \in {results, displayed} :
    list # <<>> =>
      /\ Len(list) = Len(Written(servers))
      /\ \A i \in DOMAIN list :
           IsRecord(list[i]) =>
             /\ list[i].name = Written(servers)[i].name
             /\ list[i].groupName = Written(servers)[i].group

\* a list is displayed that holds an unlabelled target followed by the two
\* children of group 'edge', one of them with status Error
Wit_C17 ==
  /\ Len(displayed) = 3
  /\ displayed[1].groupName = NULL
  /\ displayed[2].groupName = "edge" /\ displayed[2].name = "api"
  /\ displayed[3].groupName = "edge" /\ displayed[3].name = "bad"

\* the path names keys that the JSON document holds, at every depth
RECURSIVE Present(_, _)
Present(doc, path) ==
  \/ path = <<>>
  \/ /\ doc.t = "object"
     /\ Head(path) \in DOMAIN doc.f
     /\ Present(doc.f[Head(path)], Tail(path))

\* C18: when the assertion has been evaluated on a JSON body, a path that
\* names a key the JSON does not hold has resolved to the absent value, and
\* the absent value has not matched the expected value.
CE_C18 ==
  \A ci \in Calls :
    (/\ Answered(ci[1], ci[2])
     /\ Outcome(ci[1], ci[2]).responseCheckDetails # NoCheck
     /\ ~Outcome(ci[1], ci[2]).responseCheckDetails.parseError
     /\ ~Present(JSONparse(tasks[ci[1]][ci[2]].api.data).value, Leaf(ci[2]).expectedResponse.path))
    => /\ Outcome(ci[1], ci[2]).responseCheckDetails.actual = JUndefined
       /\ Leaf(ci[2]).expectedResponse.value # JUndefined =>
            Outcome(ci[1], ci[2]).responseOk = "false"

\* C19: whatever the targets of the first cycle produced, once it is over
\* the interval timer is set and the next cycle will run.
CE_C19 ==
  cycles[1].state \in {"resolved", "rejected"} => nextRefresh # NoTimer

\* C20: for a target whose configuration leaves out expectedStatus, a
\* response with status 200 has statusOk = true.
CE_C20 ==
  \A ci \in Calls :
    (/\ Answered(ci[1], ci[2])
     /\ Leaf(ci[2]).expectedStatus = 0
     /\ Outcome(ci[1], ci[2]).statusCode = 200)
    => Outcome(ci[1], ci[2]).statusOk

----------------------------------------------------------------------------
\* call i of cycle c has returned a result
HasReturned(c, i) ==
  IF tasks[c] # <<>> THEN tasks[c][i].pc = "done" ELSE cycles[c].state = "resolved"

\* C21: in one cycle the evaluation of a target calls each probe its kind
\* requires once: ping once for 'ping', checkApi once for 'api', both once
\* for 'all', and for a target with SSH either checkSSH once or the cache
\* once; no probe is called a second time, and none the kind does not need.
Thm_C21 ==
  \A c \in 1..MaxCycles : \A i \in DOMAIN probes[c] :
    LET n == probes[c][i]
        server == Leaf(i)
    IN /\ n.ping <= 1 /\ n.api <= 1 /\ n.ssh + n.cached <= 1
       /\ server.type \notin {"ping", "all"} => n.ping = 0
       /\ server.type \notin {"api", "all"} => n.api = 0
       /\ ~UsesSsh(server) => n.ssh + n.cached = 0
       /\ HasReturned(c, i) =>
            /\ server.type \in {"ping", "all"} => n.ping = 1
            /\ server.type \in {"api", "all"} => n.api = 1
            /\ (server.type = "ssh"
                  \/ (UsesSsh(server) /\ UrlFault(server.apiTarget) = NULL))
                 => n.ssh + n.cached = 1

\* a target whose ping and request both failed is displayed as DOWN after one
\* call of each of the three probes
Wit_C21 ==
  /\ displayedFrom > 0
  /\ \E i \in DOMAIN displayed :
       /\ displayed[i].status = "DOWN"
       /\ displayed[i].type = "all"
       /\ probes[displayedFrom][i] = [ping |-> 1, api |-> 1, ssh |-> 1, cached |-> 0]

----------------------------------------------------------------------------
Statuses == {"UP", "DOWN", "DEGRADED", "UNHEALTHY", "MAINTENANCE", "ERROR"}

\* C22: every element of every published result list is a result record
\* whose status is one of Up, Down, Degraded, Unhealthy, Maintenance and
\* Error, whatever the kinds of the configured targets are.
CE_C22 ==
  \A i \in DOMAIN results : IsRecord(results[i]) /\ results[i].status \in Statuses

----------------------------------------------------------------------------
\* the keys whose cache entry this step writes
Refreshed ==
  {k \in DOMAIN sshCache' : k \notin DOMAIN sshCache \/ sshCache'[k] # sshCache[k]}

\* C23: a refresh of the SSH cache entry of one key leaves the entry of every
\* other key as it was: a step writes the entry of at most one key, the key
\* of a call whose probe was running, and drops none.
Thm_C23 ==
  [][/\ DOMAIN sshCache \subseteq DOMAIN sshCache'
     /\ Cardinality(Refreshed) <= 1
     /\ \A k \in Refreshed :
          \E ci \in Calls :
            /\ Live(ci[1], ci[2])
            /\ tasks[ci[1]][ci[2]].pc = "ssh"
            /\ cacheKey(Leaf(ci[2])) = k]_vars

\* the cache holds entries of two keys, written at different times with
\* different outcomes
Wit_C23 ==
  \E k1 \in DOMAIN sshCache : \E k2 \in DOMAIN sshCache :
    /\ k1 # k2
    /\ sshCache[k1].timestamp < sshCache[k2].timestamp
    /\ sshCache[k1].result.success
    /\ ~sshCache[k2].result.success

----------------------------------------------------------------------------
\* call (c, i) is probing and another call has stored an entry for the same
\* key since (c, i) found none it could use
Overtaken(c, i) ==
  /\ Live(c, i)
  /\ tasks[c][i].pc = "ssh"
  /\ cacheKey(Leaf(i)) \in DOMAIN sshCache
  /\ sshCache[cacheKey(Leaf(i))].timestamp >= tasks[c][i].ssh.readAt

\* C24: when two calls refresh the same key concurrently, the one whose
\* probe finishes last takes its status from its own outcome and replaces
\* the other's entry: the cache keeps one entry for the key, holding the
\* outcome and the time of the probe that finished last.
Thm_C24 ==
  [][\A ci \in Calls :
       LET c == ci[1]
           i == ci[2]
           key == cacheKey(Leaf(i))
       IN (UsesSsh(Leaf(i)) /\ Overtaken(c, i) /\ Returns(c, i)) =>
            /\ DOMAIN sshCache' = DOMAIN sshCache
            /\ sshCache'[key].timestamp = now
            /\ sshCache'[key].result = Returned(c, i).sshInfo
            /\ Returned(c, i).sshInfo \in {SshTimeout} \cup {SshOnClose(m) : m \in Motds}
            /\ Leaf(i).type = "ssh" =>
                 Returned(c, i).status = SshStatus(Returned(c, i).sshInfo)]_vars

\* two targets with one key were probed in the first cycle: the first probe
\* succeeded, the second timed out later, and the cache holds the timeout
Wit_C24 ==
  /\ displayedFrom = 1
  /\ Len(displayed) = 2
  /\ UsesSsh(Leaf(1)) /\ UsesSsh(Leaf(2))
  /\ cacheKey(Leaf(1)) = cacheKey(Leaf(2))
  /\ probes[1][1].ssh = 1 /\ probes[1][2].ssh = 1
  /\ displayed[1].sshInfo.success
  /\ displayed[2].sshInfo = SshTimeout
  /\ now > 0
  /\ sshCache[cacheKey(Leaf(1))] = [result |-> SshTimeout, timestamp |-> now]

----------------------------------------------------------------------------
\* C25: running a cycle leaves the configured target list unchanged: the
\* list is at all times one of the lists as they were configured, with no
\* field of a target or group entry added, removed or modified.
CE_C25 == \E cfg \in Configs : servers = cfg.servers

----------------------------------------------------------------------------
\* C26: at most one cycle is in flight at any time, and the displayed result
\* set is never replaced by the results of a cycle that started earlier
\* than the cycle displayed: no cycle started after the displayed one has
\* completed and been displayed before it.
CE_C26 ==
  /\ Cardinality({c \in 1..MaxCycles : cycles[c].state = "running"}) <= 1
  /\ \A c \in 1..MaxCycles :
       (displayedFrom > 0 /\ cycles[c].state = "resolved") => c <= displayedFrom

----------------------------------------------------------------------------
\* a probe of the key has timed out: a result still held shows it
TimedOut(key) ==
  \E r \in Produced :
    /\ IsRecord(r)
    /\ r.sshInfo = SshTimeout
    /\ \E j \in DOMAIN Leaves(servers) :
         Leaf(j).name = r.name /\ UsesSsh(Leaf(j)) /\ cacheKey(Leaf(j)) = key

\* C27 as claimed: after a probe of a key has timed out, every call that
\* reads the cache for that key within its ttl (here a ttl beyond the end of
\* the run) reuses the failed outcome and does not probe.
CE_C27 ==
  [][\A ci \in Calls :
       LET c == ci[1]
           i == ci[2]
       IN (/\ ReadsCache(c, i)
           /\ Ttl(Leaf(i)) > MaxTime
           /\ TimedOut(cacheKey(Leaf(i)))) =>
            /\ ~InvokesProbe(c, i)
            /\ Returns(c, i)
            /\ Returned(c, i).sshInfo = SshTimeout]_vars

\* C27 as amended: the outcome of a probe that timed out is cached like a
\* success: a call that reads the cache while the entry of its key holds
\* 'SSH timeout' and is younger than the ttl does not probe, leaves the
\* entry alone and returns with that outcome: Down for an 'ssh' target,
\* Degraded for an 'all' target whose ping/API status is Up.
Thm_C27 ==
  [][\A ci \in Calls :
       LET c == ci[1]
           i == ci[2]
           key == cacheKey(Leaf(i))
       IN (/\ ReadsCache(c, i)
           /\ FreshEntry(Leaf(i))
           /\ sshCache[key].result = SshTimeout) =>
            /\ ~InvokesProbe(c, i)
            /\ sshCache' = sshCache
            /\ Returns(c, i)
            /\ Returned(c, i).sshInfo = SshTimeout
            /\ Leaf(i).type = "ssh" => Returned(c, i).status = "DOWN"
            /\ (Leaf(i).type = "all" /\ Baseline(Returned(c, i).details) = "UP")
                 => Returned(c, i).status = "DEGRADED"]_vars

\* an 'all' target reachable by ping and API is displayed as DEGRADED from a
\* cached timeout, without a probe of its own
Wit_C27 ==
  /\ displayedFrom > 0
  /\ \E i \in DOMAIN displayed :
       /\ displayed[i].type = "all"
       /\ displayed[i].status = "DEGRADED"
       /\ displayed[i].sshInfo = SshTimeout
       /\ Baseline(displayed[i].details) = "UP"
       /\ probes[displayedFrom][i] = [ping |-> 1, api |-> 1, ssh |-> 0, cached |-> 1]

----------------------------------------------------------------------------
\* C28: the wait passed to ping is floor(timeout / unit), unit being 1000 on
\* Linux and 1 elsewhere: taken back to milliseconds it never exceeds the
\* timeout and falls short of it by less than one unit, and on Linux it is 0
\* for every timeout below 1000.
Thm_C28 ==
  \A ci \in Tasks :
    LET t == tasks[ci[1]][ci[2]]
        timeout == Leaf(ci[2]).timeout
        unit == IF isLinux THEN 1000 ELSE 1
    IN t.pc = "ping" =>
         /\ t.pingWait * unit <= timeout
         /\ timeout < (t.pingWait + 1) * unit
         /\ (isLinux /\ timeout < 1000) => t.pingWait = 0
         /\ ~isLinux => t.pingWait = timeout

\* on Linux a ping with a timeout below one second runs with a wait of 0
Wit_C28 ==
  \E ci \in Tasks :
    /\ tasks[ci[1]][ci[2]].pc = "ping"
    /\ isLinux
    /\ Leaf(ci[2]).timeout > 0
    /\ Leaf(ci[2]).timeout < 1000
    /\ tasks[ci[1]][ci[2]].pingWait = 0
====
